---- MODULE Spec2Model ----
(***************************************************************************)
(* Model of finance_app.py: a Streamlit script over finance_data.json.     *)
(*                                                                         *)
(* Every user interaction starts a run of the whole script: the run loads  *)
(* the document from the data file (line 52), executes the handler of the  *)
(* one button that was pressed, saves, and renders.  A run is two steps,   *)
(* Load and the handler, so that runs of two browser sessions against the  *)
(* same file can interleave between a load and the save that follows it.   *)
(*                                                                         *)
(* Amounts are Python floats.  A float is modelled as an integer number of *)
(* quanta, and every arithmetic result is rounded to Prec significant bits *)
(* (round-half-to-even), as IEEE 754 binary64 does with 53 bits.           *)
(***************************************************************************)
EXTENDS Integers, Sequences, FiniteSets, TLC

\* ---- bounds of the model ----
Prec == 2
MaxEntries == 2
MaxOps == 3
MaxSharedOps == 2

\* ---- inputs the widgets can deliver ----
Sessions == {1, 2}
Dates == {"2024-01-01", "2024-01-02"}
Descs == {"", "a"}
Amounts == {0, 2, 3}
Wallets == {0, 4}
TypeOptions == {"Expense", "Someone owes ME", "I owe Someone"}

VARIABLES file, data, pc, totals, last, ops

vars == <<file, data, pc, totals, last, ops>>

\* ---- float arithmetic ----
Abs(x) == IF x < 0 THEN -x ELSE x

RECURSIVE Pow2(_)
Pow2(n) == IF n = 0 THEN 1 ELSE 2 * Pow2(n - 1)

RECURSIVE Ulp(_, _)
Ulp(m, u) == IF m < Pow2(Prec) * u THEN u ELSE Ulp(m, 2 * u)

Fl(x) ==
  LET m == Abs(x)
      u == Ulp(m, 1)
      q == m \div u
      r == m % u
      up == (2 * r > u) \/ (2 * r = u /\ q % 2 = 1)
      n == (IF up THEN q + 1 ELSE q) * u
  IN IF x < 0 THEN -n ELSE n

FAdd(a, b) == Fl(a + b)

FSub(a, b) == Fl(a - b)

\* ---- the document and the data file ----
default_data == [wallet_balance |-> 0, expenses |-> <<>>, debts |-> <<>>]

Missing == [status |-> "missing", doc |-> default_data]

Corrupt == [status |-> "corrupt", doc |-> default_data]

Stored(d) == [status |-> "ok", doc |-> d]

load_data(f) ==
  IF f.status = "missing"
    THEN [data |-> default_data, file |-> Stored(default_data)]
    ELSE IF f.status = "corrupt"
      THEN [data |-> default_data, file |-> f]
      ELSE [data |-> f.doc, file |-> f]

\* save_data with the write left out.
save_data_lost(f, d) == f

save_data(f, d) == Stored(d)

\* ---- sidebar: add entry, wallet settings ----
\* entry_form without the test of the description.
entry_form_unchecked(d, type_option, amount, desc, today) ==
  IF amount > 0
    THEN IF type_option = "Expense"
      THEN [saved |-> TRUE,
            data |-> [d EXCEPT
              !.wallet_balance = FSub(d.wallet_balance, amount),
              !.expenses = Append(d.expenses,
                 [date |-> today, amount |-> amount, description |-> desc])]]
      ELSE [saved |-> TRUE,
            data |-> [d EXCEPT
              !.debts = Append(d.debts,
                 [date |-> today, amount |-> amount, person |-> desc,
                  type |-> IF type_option = "Someone owes ME"
                             THEN "receivable" ELSE "payable"])]]
    ELSE [saved |-> FALSE, data |-> d]

entry_form(d, type_option, amount, desc, today) ==
  IF amount > 0 /\ desc # ""
    THEN IF type_option = "Expense"
      THEN [saved |-> TRUE,
            data |-> [d EXCEPT
              !.wallet_balance = FSub(d.wallet_balance, amount),
              !.expenses = Append(d.expenses,
                 [date |-> today, amount |-> amount, description |-> desc])]]
      ELSE [saved |-> TRUE,
            data |-> [d EXCEPT
              !.debts = Append(d.debts,
                 [date |-> today, amount |-> amount, person |-> desc,
                  type |-> IF type_option = "Someone owes ME"
                             THEN "receivable" ELSE "payable"])]]
    ELSE [saved |-> FALSE, data |-> d]

update_wallet(d, new_wallet) == [d EXCEPT !.wallet_balance = new_wallet]

\* ---- dashboard totals ----
\* sum(...): the items are added from left to right, starting from 0.
RECURSIVE fsum(_)
fsum(s) == IF s = <<>> THEN 0
           ELSE FAdd(fsum(SubSeq(s, 1, Len(s) - 1)), s[Len(s)])

AmountsOf(s) == [i \in 1..Len(s) |-> s[i].amount]

OfType(s, t) == SelectSeq(s, LAMBDA x : x.type = t)

total_spent(d) == fsum(AmountsOf(d.expenses))

\* to_receive without the filter on the kind of debt.
to_receive_all_debts(d) == fsum(AmountsOf(d.debts))

to_receive(d) == fsum(AmountsOf(OfType(d.debts, "receivable")))

to_pay(d) == fsum(AmountsOf(OfType(d.debts, "payable")))

net_position(d) == FSub(FAdd(d.wallet_balance, to_receive(d)), to_pay(d))

dashboard(d) ==
  [total_spent |-> total_spent(d), to_receive |-> to_receive(d),
   to_pay |-> to_pay(d), net_position |-> net_position(d)]

\* ---- activity table and record selector ----
exp_row(i, x) ==
  [ID |-> [kind |-> "exp", idx |-> i], Date |-> x.date, Type |-> "Expense",
   Description |-> x.description, Amount |-> -x.amount, RawAmount |-> x.amount]

debt_row(i, x) ==
  [ID |-> [kind |-> "debt", idx |-> i], Date |-> x.date,
   Type |-> IF x.type = "receivable" THEN "Incoming (Owed to You)"
                                     ELSE "Outgoing (You Owe)",
   Description |-> x.person,
   Amount |-> IF x.type = "receivable" THEN x.amount ELSE -x.amount,
   RawAmount |-> x.amount]

table_data(d) ==
  [i \in 1..Len(d.expenses) |-> exp_row(i - 1, d.expenses[i])]
    \o [i \in 1..Len(d.debts) |-> debt_row(i - 1, d.debts[i])]

label(row) == <<row.Date, row.Type, row.Description, Abs(row.Amount)>>

\* A dict comprehension: a later row with the same label replaces the ID.
record_map(df) ==
  [l \in {label(df[k]) : k \in 1..Len(df)} |->
     LET ks == {k \in 1..Len(df) : label(df[k]) = l}
         k == CHOOSE k \in ks : \A j \in ks : j <= k
     IN df[k].ID]

exp_in_range(d, id) == id.idx < Len(d.expenses)

debt_in_range(d, id) == id.idx < Len(d.debts)

in_range(d, id) ==
  IF id.kind = "exp" THEN exp_in_range(d, id) ELSE debt_in_range(d, id)

\* ---- manage records: edit ----
\* edit_form that moves the wallet for a debt as it does for an expense.
edit_form_debits_debt(d, selected_id, new_desc, new_amount) ==
  LET idx == selected_id.idx + 1
  IN IF selected_id.kind = "exp"
       THEN LET old_amt == d.expenses[idx].amount
                refunded == FAdd(d.wallet_balance, old_amt)
            IN [d EXCEPT
                 !.expenses[idx].description = new_desc,
                 !.expenses[idx].amount = new_amount,
                 !.wallet_balance = FSub(refunded, new_amount)]
       ELSE LET old_amt == d.debts[idx].amount
                refunded == FAdd(d.wallet_balance, old_amt)
            IN [d EXCEPT
                 !.debts[idx].person = new_desc,
                 !.debts[idx].amount = new_amount,
                 !.wallet_balance = FSub(refunded, new_amount)]

edit_form(d, selected_id, new_desc, new_amount) ==
  LET idx == selected_id.idx + 1
  IN IF selected_id.kind = "exp"
       THEN LET old_amt == d.expenses[idx].amount
                refunded == FAdd(d.wallet_balance, old_amt)
            IN [d EXCEPT
                 !.expenses[idx].description = new_desc,
                 !.expenses[idx].amount = new_amount,
                 !.wallet_balance = FSub(refunded, new_amount)]
       ELSE [d EXCEPT
              !.debts[idx].person = new_desc,
              !.debts[idx].amount = new_amount]

\* ---- manage records: delete ----
del(s, idx) == SubSeq(s, 1, idx - 1) \o SubSeq(s, idx + 1, Len(s))

\* confirm_delete that refunds the selected expense but removes the next one.
confirm_delete_next(d, selected_id) ==
  LET idx == selected_id.idx + 1
  IN IF selected_id.kind = "exp"
       THEN [d EXCEPT
              !.wallet_balance = FAdd(d.wallet_balance, d.expenses[idx].amount),
              !.expenses = del(d.expenses, idx + 1)]
       ELSE [d EXCEPT !.debts = del(d.debts, idx + 1)]

confirm_delete(d, selected_id) ==
  LET idx == selected_id.idx + 1
  IN IF selected_id.kind = "exp"
       THEN [d EXCEPT
              !.wallet_balance = FAdd(d.wallet_balance, d.expenses[idx].amount),
              !.expenses = del(d.expenses, idx)]
       ELSE [d EXCEPT !.debts = del(d.debts, idx)]

\* ---- the last button handler that ran ----
NoId == [kind |-> "none", idx |-> 0]

Handled(op, s, outcome, id, type_option, amount, desc, today) ==
  [op |-> op, s |-> s, outcome |-> outcome, id |-> id,
   type_option |-> type_option, amount |-> amount, desc |-> desc,
   today |-> today]

NoOp == Handled("none", 1, "none", NoId, "", 0, "", "")

Size(d) == Len(d.expenses) + Len(d.debts)

\* ---- initial state ----
SeedDoc ==
  [wallet_balance |-> 4,
   expenses |-> <<[date |-> "2024-01-01", amount |-> 3, description |-> "a"]>>,
   debts |-> <<[date |-> "2024-01-01", amount |-> 2, person |-> "a",
                type |-> "payable"]>>]

InitFiles == {Missing, Corrupt, Stored(SeedDoc)}

Init ==
  /\ file \in InitFiles
  /\ data = [s \in Sessions |-> default_data]
  /\ pc = [s \in Sessions |-> "idle"]
  /\ totals = [s \in Sessions |-> dashboard(default_data)]
  /\ last = NoOp
  /\ ops = 0

\* ---- steps of a script run ----
Load(s) ==
  /\ pc[s] \in {"idle", "rerun"}
  /\ LET l == load_data(file)
     IN /\ data' = [data EXCEPT ![s] = l.data]
        /\ file' = l.file
  /\ pc' = [pc EXCEPT ![s] = IF pc[s] = "idle" THEN "run" ELSE "render"]
  /\ UNCHANGED <<totals, last, ops>>

AddEntry(s, budget) ==
  /\ pc[s] = "run"
  /\ ops < budget
  /\ \E type_option \in TypeOptions, amount \in Amounts, desc \in Descs,
        today \in Dates :
       LET r == entry_form(data[s], type_option, amount, desc, today)
       IN /\ Size(r.data) <= MaxEntries
          /\ data' = [data EXCEPT ![s] = r.data]
          /\ file' = IF r.saved THEN save_data(file, r.data) ELSE file
          /\ totals' = [totals EXCEPT ![s] = dashboard(r.data)]
          /\ last' = Handled("add", s, IF r.saved THEN "ok" ELSE "rejected",
                             NoId, type_option, amount, desc, today)
  /\ pc' = [pc EXCEPT ![s] = "idle"]
  /\ ops' = ops + 1

UpdateWallet(s, budget) ==
  /\ pc[s] = "run"
  /\ ops < budget
  /\ \E new_wallet \in Wallets :
       LET d == update_wallet(data[s], new_wallet)
       IN /\ data' = [data EXCEPT ![s] = d]
          /\ file' = save_data(file, d)
          /\ totals' = [totals EXCEPT ![s] = dashboard(d)]
          /\ last' = Handled("wallet", s, "ok", NoId, "", new_wallet, "", "")
  /\ pc' = [pc EXCEPT ![s] = "idle"]
  /\ ops' = ops + 1

EditRecord(s, budget) ==
  /\ pc[s] = "run"
  /\ ops < budget
  /\ LET m == record_map(table_data(data[s]))
     IN \E selected_label \in DOMAIN m, new_desc \in Descs,
           new_amount \in Amounts :
          LET selected_id == m[selected_label]
          IN IF in_range(data[s], selected_id)
               THEN LET d == edit_form(data[s], selected_id, new_desc,
                                       new_amount)
                    IN /\ data' = [data EXCEPT ![s] = d]
                       /\ file' = save_data(file, d)
                       /\ pc' = [pc EXCEPT ![s] = "rerun"]
                       /\ last' = Handled("edit", s, "ok", selected_id, "",
                                          new_amount, new_desc, "")
               ELSE /\ UNCHANGED <<data, file>>
                    /\ pc' = [pc EXCEPT ![s] = "idle"]
                    /\ last' = Handled("edit", s, "IndexError", selected_id,
                                       "", new_amount, new_desc, "")
  /\ totals' = [totals EXCEPT ![s] = dashboard(data[s])]
  /\ ops' = ops + 1

DeleteRecord(s, budget) ==
  /\ pc[s] = "run"
  /\ ops < budget
  /\ LET m == record_map(table_data(data[s]))
     IN \E selected_label \in DOMAIN m :
          LET selected_id == m[selected_label]
          IN IF in_range(data[s], selected_id)
               THEN LET d == confirm_delete(data[s], selected_id)
                    IN /\ data' = [data EXCEPT ![s] = d]
                       /\ file' = save_data(file, d)
                       /\ pc' = [pc EXCEPT ![s] = "rerun"]
                       /\ last' = Handled("delete", s, "ok", selected_id, "",
                                          0, "", "")
               ELSE /\ UNCHANGED <<data, file>>
                    /\ pc' = [pc EXCEPT ![s] = "idle"]
                    /\ last' = Handled("delete", s, "IndexError", selected_id,
                                       "", 0, "", "")
  /\ totals' = [totals EXCEPT ![s] = dashboard(data[s])]
  /\ ops' = ops + 1

Render(s) ==
  /\ pc[s] \in {"run", "render"}
  /\ totals' = [totals EXCEPT ![s] = dashboard(data[s])]
  /\ pc' = [pc EXCEPT ![s] = "idle"]
  /\ UNCHANGED <<file, data, last, ops>>

Run(s, budget) ==
  \/ Load(s)
  \/ AddEntry(s, budget)
  \/ UpdateWallet(s, budget)
  \/ EditRecord(s, budget)
  \/ DeleteRecord(s, budget)
  \/ Render(s)

\* One interactive session.
Next == Run(1, MaxOps)

Spec == Init /\ [][Next]_vars

\* Two browser sessions on the same data file.
NextShared == \E s \in Sessions : Run(s, MaxSharedOps)

SharedSpec == Init /\ [][NextShared]_vars

\* ---- what the claims speak about ----
\* The handler of button op has just run in session s.
Handles(s, op) == ops' = ops + 1 /\ last'.s = s /\ last'.op = op

Mutating == {"add", "wallet", "edit", "delete"}

\* The document a load of the data file f returns.
Persisted(f) == load_data(f).data

Entries(d) ==
  {[description |-> d.expenses[i].description, amount |-> d.expenses[i].amount]
     : i \in 1..Len(d.expenses)}
  \cup {[description |-> d.debts[i].person, amount |-> d.debts[i].amount]
     : i \in 1..Len(d.debts)}

SameExcept(old, new, i) ==
  /\ Len(new) = Len(old)
  /\ \A j \in 1..Len(old) : j # i => new[j] = old[j]

Removed(old, new, i) ==
  /\ Len(new) = Len(old) - 1
  /\ \A j \in 1..Len(new) : new[j] = IF j < i THEN old[j] ELSE old[j + 1]

\* Cash plus money spent, in the program's arithmetic.
Ledger(d) == FAdd(d.wallet_balance, fsum(AmountsOf(d.expenses)))

\* C1: wallet conservation. Every addExpense, editExpense and deleteExpense
\* step leaves walletBalance + (sum of the expense amounts) as it was, so
\* without setWalletBalance the quantity keeps its initial value in every
\* reachable state.
C1_WalletConservation ==
  [][\A s \in Sessions :
       (\/ Handles(s, "add") /\ last'.type_option = "Expense"
        \/ Handles(s, "edit") /\ last'.id.kind = "exp"
             /\ last'.amount > 0 /\ last'.desc # ""
        \/ Handles(s, "delete") /\ last'.id.kind = "exp")
       => Ledger(data'[s]) = Ledger(data[s])]_vars

\* C2: debt neutrality. Every addDebt, editDebt and deleteDebt step leaves
\* walletBalance and the expenses list unchanged, in memory and in the file.
C2_DebtNeutrality ==
  [][\A s \in Sessions :
       (\/ Handles(s, "add") /\ last'.type_option # "Expense"
        \/ Handles(s, "edit") /\ last'.id.kind = "debt"
        \/ Handles(s, "delete") /\ last'.id.kind = "debt")
       => /\ data'[s].wallet_balance = data[s].wallet_balance
          /\ data'[s].expenses = data[s].expenses
          /\ Persisted(file').wallet_balance = data[s].wallet_balance
          /\ Persisted(file').expenses = data[s].expenses]_vars

C2_Witness ==
  /\ last.op = "edit" /\ last.id.kind = "debt" /\ last.outcome = "ok"
  /\ Len(data[1].expenses) > 0
  /\ data[1].debts[last.id.idx + 1].amount = 3

\* C3: every entry of expenses and of debts, in memory and in the file, has
\* amount > 0 and a non-empty description/person.
C3_EntriesValid ==
  \A s \in Sessions :
    \A e \in Entries(data[s]) \cup Entries(Persisted(file)) :
      e.amount > 0 /\ e.description # ""

\* C4: an edit or delete whose index identity is out of the current bounds of
\* its list in the data file leaves the document, in memory and persisted,
\* exactly as it was.
C4_NotFoundUnchanged ==
  [][\A s \in Sessions :
       ((\/ Handles(s, "edit") /\ last'.amount > 0 /\ last'.desc # ""
         \/ Handles(s, "delete"))
          /\ ~in_range(Persisted(file), last'.id))
       => file' = file /\ data'[s] = data[s]]_vars

\* C5: an add submitted with amount <= 0 or an empty description/person is
\* rejected before any mutation: document and data file are unchanged.
C5_InvalidAddRejected ==
  [][\A s \in Sessions :
       (Handles(s, "add") /\ (last'.amount <= 0 \/ last'.desc = ""))
       => /\ last'.outcome = "rejected"
          /\ data'[s] = data[s]
          /\ file' = file]_vars

C5_Witness ==
  /\ last.op = "add" /\ last.outcome = "rejected"
  /\ last.amount > 0 /\ last.desc = ""
  /\ Len(data[1].expenses) > 0

\* C6: whenever a run has finished, the summary shown is the one of the
\* current document: totalSpent the sum over expenses, toReceive and toPay the
\* sums over the debts of each kind, netPosition = (walletBalance +
\* toReceive) - toPay; a run that only renders changes no entry, no balance
\* and nothing in the data file.
C6_Summary ==
  [][\A s \in Sessions :
       /\ pc'[s] = "idle" =>
            LET d == data'[s]
                recv == fsum(AmountsOf(SelectSeq(d.debts,
                               LAMBDA x : x.type = "receivable")))
                pay == fsum(AmountsOf(SelectSeq(d.debts,
                               LAMBDA x : x.type = "payable")))
            IN totals'[s] =
                 [total_spent |-> fsum(AmountsOf(d.expenses)),
                  to_receive |-> recv,
                  to_pay |-> pay,
                  net_position |-> FSub(FAdd(d.wallet_balance, recv), pay)]
       /\ (pc[s] \in {"run", "render"} /\ pc'[s] = "idle" /\ ops' = ops)
            => data' = data /\ file' = file]_vars

C6_Witness ==
  /\ pc[1] = "idle"
  /\ totals[1].total_spent > 0
  /\ totals[1].to_receive > 0
  /\ totals[1].net_position # data[1].wallet_balance

\* C7: write-through. Once a mutating operation has completed, the data file
\* holds the in-memory document and a load returns it.
C7_WriteThrough ==
  (last.op \in Mutating /\ last.outcome = "ok")
    => /\ file = Stored(data[last.s])
       /\ Persisted(file) = data[last.s]

C7_Witness ==
  /\ last.op = "edit" /\ last.outcome = "ok"
  /\ pc[1] = "rerun"
  /\ Len(data[1].debts) > 0

\* C8: edit and delete touch only the addressed entry. An edit rewrites the
\* description/person and amount of the entry at position i and keeps its
\* date and kind; a delete removes exactly the entry at position i, and a
\* deleted expense refunds that entry's amount; every other entry of both
\* lists keeps its contents and order.
C8_OnlyAddressedEntry ==
  [][\A s \in Sessions :
       LET b == data[s]
           a == data'[s]
           h == last'
           i == h.id.idx + 1
       IN /\ (Handles(s, "edit") /\ h.id.kind = "exp") =>
               /\ SameExcept(b.expenses, a.expenses, i)
               /\ a.expenses[i] = [date |-> b.expenses[i].date,
                                   amount |-> h.amount,
                                   description |-> h.desc]
               /\ a.debts = b.debts
          /\ (Handles(s, "edit") /\ h.id.kind = "debt") =>
               /\ SameExcept(b.debts, a.debts, i)
               /\ a.debts[i] = [date |-> b.debts[i].date,
                                amount |-> h.amount,
                                person |-> h.desc,
                                type |-> b.debts[i].type]
               /\ a.expenses = b.expenses
               /\ a.wallet_balance = b.wallet_balance
          /\ (Handles(s, "delete") /\ h.id.kind = "exp") =>
               /\ Removed(b.expenses, a.expenses, i)
               /\ a.wallet_balance = FAdd(b.wallet_balance,
                                          b.expenses[i].amount)
               /\ a.debts = b.debts
          /\ (Handles(s, "delete") /\ h.id.kind = "debt") =>
               /\ Removed(b.debts, a.debts, i)
               /\ a.expenses = b.expenses
               /\ a.wallet_balance = b.wallet_balance]_vars

C8_Witness ==
  /\ last.op = "delete" /\ last.outcome = "ok"
  /\ last.id = [kind |-> "exp", idx |-> 0]
  /\ Len(data[1].expenses) > 0

\* The document an atomic read-modify-write of operation h makes of p.
Effect(h, p) ==
  IF h.op = "add"
    THEN entry_form(p, h.type_option, h.amount, h.desc, h.today).data
  ELSE IF h.op = "wallet" THEN update_wallet(p, h.amount)
  ELSE IF ~in_range(p, h.id) THEN p
  ELSE IF h.op = "edit" THEN edit_form(p, h.id, h.desc, h.amount)
  ELSE confirm_delete(p, h.id)

\* C9: each operation is an atomic read-modify-write: what a completed
\* operation leaves in the data file is its effect on the document the file
\* held just before, so no other completed operation's change is lost.
C9_AtomicReadModifyWrite ==
  [][\A s \in Sessions :
       (\E op \in Mutating : Handles(s, op) /\ last'.outcome = "ok")
       => Persisted(file') = Effect(last', Persisted(file))]_vars

\* C10: every entry is addressable: for each row of the activity table some
\* option of the record selector resolves to that row's own ID.
C10_EveryEntryAddressable ==
  \A s \in Sessions :
    LET df == table_data(data[s])
        m == record_map(df)
    IN \A k \in 1..Len(df) : \E l \in DOMAIN m : m[l] = df[k].ID

====
